---- MODULE Spec2Model ----
(***************************************************************************)
(* ProstaSegWidget (src/ProstaSeg/ProstaSeg.py): the case list built from  *)
(* a root directory, the navigation cursor, the nodes the widget loads     *)
(* into the host scene, and the annotation table it appends to.            *)
(*                                                                         *)
(* Text the code inspects (folder names, file names, segment names) is a   *)
(* tuple of one-character strings, so that substring tests, lower-casing   *)
(* and the table reader's type inference are computed, not assumed.        *)
(***************************************************************************)
EXTENDS Integers, Sequences, FiniteSets, TLC

VARIABLES
    tree,               \* file system: entries of each root directory
    csv,                \* file system: <root>/ProstaSeg_annotations.csv
    saved,              \* file system: <root>/<patient>/segmentation.seg.nrrd
    directory,          \* self.directory
    n_files,            \* self.n_files
    current_index,      \* self.current_index
    image_files,        \* self.image_files
    segmentation_files, \* self.segmentation_files
    volume_node,        \* self.volume_node
    segmentation_node,  \* self.segmentation_node
    var_comment,        \* self.ui.var_comment
    var_check,          \* self.ui.var_check
    var_ID,             \* self.ui.var_ID
    scene,              \* slicer.mrmlScene: how many nodes of each class it holds
    stack,              \* handlers waiting inside load_files for the event loop to return
    delivered,          \* clicks the event loop delivered to handlers inside the waiting ones
    last                \* the handler that ran last and how it ended

fsvars == <<tree, csv, saved>>
widgetvars == <<directory, n_files, current_index, image_files, segmentation_files,
                volume_node, segmentation_node>>
uivars == <<var_comment, var_check, var_ID>>
loopvars == <<stack, delivered>>
vars == <<tree, csv, saved, directory, n_files, current_index, image_files,
          segmentation_files, volume_node, segmentation_node, var_comment,
          var_check, var_ID, scene, stack, delivered, last>>

----------------------------------------------------------------------------
(* Bounds *)

\* data rows the annotation tables may hold together before save-and-next is cut off
MaxRows == 2
\* case loads (one segment editor node each) a run may make
MaxEditorNodes == 4
\* clicks that can be waiting when a handler returns to the event loop
MaxPending == 1

----------------------------------------------------------------------------
(* Text *)

\* the upper-case letters and their lower-case forms
UpperToLower ==
    [A |-> "a", B |-> "b", C |-> "c", D |-> "d", E |-> "e", F |-> "f",
     G |-> "g", H |-> "h", I |-> "i", J |-> "j", K |-> "k", L |-> "l",
     M |-> "m", N |-> "n", O |-> "o", P |-> "p", Q |-> "q", R |-> "r",
     S |-> "s", T |-> "t", U |-> "u", V |-> "v", W |-> "w", X |-> "x",
     Y |-> "y", Z |-> "z"]

LowerChar(c) == IF c \in DOMAIN UpperToLower THEN UpperToLower[c] ELSE c

\* str.lower()
Lower(s) == [i \in 1..Len(s) |-> LowerChar(s[i])]

\* sub in s
Contains(s, sub) ==
    \E i \in 1..(Len(s) - Len(sub) + 1) : SubSeq(s, i, i + Len(sub) - 1) = sub

Digits == {"0", "1", "2", "3", "4", "5", "6", "7", "8", "9"}

DigitValue(c) ==
    CASE c = "0" -> 0 [] c = "1" -> 1 [] c = "2" -> 2 [] c = "3" -> 3
      [] c = "4" -> 4 [] c = "5" -> 5 [] c = "6" -> 6 [] c = "7" -> 7
      [] c = "8" -> 8 [] c = "9" -> 9

IsDigits(s) == Len(s) > 0 /\ \A i \in 1..Len(s) : s[i] \in Digits

RECURSIVE ParseInt(_)
ParseInt(s) ==
    IF Len(s) = 0 THEN 0
    ELSE 10 * ParseInt(SubSeq(s, 1, Len(s) - 1)) + DigitValue(s[Len(s)])

ImageWord == <<"i", "m", "a", "g", "e">>
SegmentationWord == <<"s", "e", "g", "m", "e", "n", "t", "a", "t", "i", "o", "n">>
FasciaWord == <<"f", "a", "s", "c", "i", "a">>
ProstateWord == <<"p", "r", "o", "s", "t", "a", "t", "e">>
FasciaLabel == <<"F", "a", "s", "c", "i", "a">>
ProstateLabel == <<"P", "r", "o", "s", "t", "a", "t", "e">>
TumorName == <<"T", "u", "m", "o", "r">>
OtherName == <<"O", "t", "h", "e", "r">>
FasciaUpper == <<"F", "A", "S", "C", "I", "A">>

\* the segment names a segmentation can hold, and segment.GetName().lower() of each
SegmentNamePool ==
    {TumorName, OtherName, FasciaWord, FasciaLabel, FasciaUpper, ProstateWord, ProstateLabel}
LowerName == [n \in SegmentNamePool |-> Lower(n)]

\* 'segmentation.seg.nrrd'
SavedName == SegmentationWord \o <<".", "s", "e", "g", ".", "n", "r", "r", "d">>

----------------------------------------------------------------------------
(* The directories the operator can select *)

Dirs == {"A", "B"}

P1 == <<"p", "1">>
N7 == <<"7">>
PatientNames == {P1, N7}

FImage == ImageWord
FSegmentation == <<"S">> \o Tail(SegmentationWord)
FImageSegmentation == ImageWord \o <<"_">> \o SegmentationWord

Comments == {"", "ok"}

NoEntry == [kind |-> "none", files |-> {}]
FileEntry == [kind |-> "file", files |-> {}]
DirEntry(fs) == [kind |-> "dir", files |-> fs]

\* what folder p1 of directory A may hold at start: every combination of files
FolderLayouts == {DirEntry(fs) : fs \in SUBSET {FImage, FSegmentation, FImageSegmentation}}

\* directory A: p1 is absent or holds any combination of files, 7 holds an image
\* and a segmentation
TreeA == {[p \in PatientNames |->
              IF p = P1 THEN e1
              ELSE IF p = N7 THEN DirEntry({FImage, FSegmentation}) ELSE NoEntry] :
          e1 \in FolderLayouts \cup {NoEntry}}

\* directory B: no patient folder, one plain file
TreeB == [p \in PatientNames |-> IF p = P1 THEN FileEntry ELSE NoEntry]

\* the segments stored in a segmentation file that is on disk at start
InitialRegions(folder, file) ==
    IF folder = P1 THEN <<TumorName, FasciaWord, OtherName>>
    ELSE << ProstateLabel >>

----------------------------------------------------------------------------
(* Values *)

None == <<>>
Path(d, folder, file) == <<d, folder, file>>

NoneNode == [isNone |-> TRUE, src |-> None, segs |-> <<>>, present |-> FALSE]

NoFile == [exists |-> FALSE, lines |-> <<>>]
NoSaved == [exists |-> FALSE, regions |-> <<>>]

PatientIDColumn == <<"p", "a", "t", "i", "e", "n", "t", "I", "D">>
HeaderLine == <<PatientIDColumn, "comment">>

CheckText(text, i, n) == [text |-> text, index |-> i, total |-> n]
AllChecked == CheckText("All files are checked!", 0, 0)

\* what the handler that ran last did, together with the handlers the event loop
\* ran inside it: the name of the one that ran last, the exception it ended
\* with, the outcome of the latest saveNode call, whether load_files showed the
\* 'Prostate' message, and how many RemoveNode calls were made on a node that
\* was not in the scene
Handled(op, err, write, info, absent) ==
    [op |-> op, err |-> err, write |-> write, info |-> info, absent |-> absent]

----------------------------------------------------------------------------
(* File system *)

\* the files of folder p of root d
Files(d, p) ==
    tree[d][p].files \cup (IF saved[d][p].exists THEN {SavedName} ELSE {})

\* the segments stored in the segmentation file at path
Regions(path) ==
    IF path[3] = SavedName THEN saved[path[1]][path[2]].regions
    ELSE InitialRegions(path[2], path[3])

\* pd.read_csv(...)['patientID'].values: a column of digit strings is read as
\* integers, any other column as strings
ReadPatientIDs(file) ==
    LET ids == {file.lines[i][1] : i \in 2..Len(file.lines)}
    IN  IF ids # {} /\ \A s \in ids : IsDigits(s)
        THEN {[type |-> "int", int |-> ParseInt(s), str |-> <<>>] : s \in ids}
        ELSE {[type |-> "str", int |-> 0, str |-> s] : s \in ids}

\* a folder name, as the str that `patientID in annotated_files` looks up
StrValue(s) == [type |-> "str", int |-> 0, str |-> s]

----------------------------------------------------------------------------
(* Scene bookkeeping *)

\* if node and slicer.mrmlScene.IsNodePresent(node): slicer.mrmlScene.RemoveNode(node)
Removable(node) == ~node.isNone /\ node.present

Removed(node) == IF Removable(node) THEN [node EXCEPT !.present = FALSE] ELSE node

\* the scene after the guarded removal of the widget's two nodes
SceneAfterRemoval ==
    [scene EXCEPT
        !.volumes = @ - (IF Removable(volume_node) THEN 1 ELSE 0),
        !.segmentations = @ - (IF Removable(segmentation_node) THEN 1 ELSE 0)]

----------------------------------------------------------------------------
(* load_files *)

VisibleCaseSensitive(name) == name = FasciaWord \/ name = ProstateWord

Visible(name) == LowerName[name] = FasciaWord \/ LowerName[name] = ProstateWord

LoadedSegmentsExactName(regions) ==
    LET loaded == [i \in 1..Len(regions) |->
                       [name |-> regions[i], visible |-> Visible(regions[i])]]
        hasFascia == \E i \in 1..Len(regions) : regions[i] = FasciaLabel
    IN  IF hasFascia THEN loaded
        ELSE Append(loaded, [name |-> FasciaLabel, visible |-> TRUE])

\* the segments of a segmentation loaded from a file holding `regions`
LoadedSegments(regions) ==
    LET loaded == [i \in 1..Len(regions) |->
                       [name |-> regions[i], visible |-> Visible(regions[i])]]
        hasFascia == \E i \in 1..Len(regions) : LowerName[regions[i]] = FasciaWord
    IN  IF hasFascia THEN loaded
        ELSE Append(loaded, [name |-> FasciaLabel, visible |-> TRUE])

FreshSegmentsFasciaFirst ==
    << [name |-> FasciaLabel, visible |-> TRUE], [name |-> ProstateLabel, visible |-> TRUE] >>

\* the segments of a segmentation created when the case has no file
FreshSegments ==
    << [name |-> ProstateLabel, visible |-> TRUE], [name |-> FasciaLabel, visible |-> TRUE] >>

\* segment_id_prostate is None at the end of load_files
ProstateMissing(segpath) ==
    IF segpath = None THEN FALSE
    ELSE LET regions == Regions(segpath)
         IN  ~\E i \in 1..Len(regions) :
                  LowerName[regions[i]] # FasciaWord /\ LowerName[regions[i]] = ProstateWord

\* load_files for the case at idx up to the call of
\* set_segmentation_and_mask_for_segmentation_editor, run after the widget's
\* nodes became vol and seg and the scene sc: the nodes and the scene it leaves,
\* and its locals file_path.parent.name and segment_id_prostate is None
LoadFiles(idx, vol, seg, sc) ==
    LET file_path == image_files'[idx + 1]
        segpath == segmentation_files'[idx + 1]
    IN  IF file_path = None
        THEN \* slicer.util.loadVolume(None) raises
             [err |-> "RuntimeError", volume_node |-> vol, segmentation_node |-> seg,
              scene |-> sc, folder |-> <<>>, info |-> FALSE]
        ELSE [err |-> "none",
              volume_node |-> [isNone |-> FALSE, src |-> file_path, segs |-> <<>>,
                               present |-> TRUE],
              segmentation_node |->
                  [isNone |-> FALSE, src |-> segpath, present |-> TRUE,
                   segs |-> IF segpath = None THEN FreshSegments
                            ELSE LoadedSegments(Regions(segpath))],
              scene |-> [sc EXCEPT !.volumes = @ + 1, !.segmentations = @ + 1],
              folder |-> file_path[2],
              info |-> ProstateMissing(segpath)]

----------------------------------------------------------------------------
(* The event loop inside load_files *)

\* a handler waiting in load_files: at slicer.app.processEvents() ("events") or
\* in the dialog of slicer.util.infoDisplay ("dialog"), with the locals of
\* load_files it still uses
Frame(op, folder, info, at) == [op |-> op, folder |-> folder, info |-> info, at |-> at]

\* a click reaches its handler: the widget is idle, or a handler waits in the
\* event loop and a click is still pending
Deliverable == stack = <<>> \/ delivered < MaxPending

\* the clicks delivered inside the waiting handlers, once this handler has started
Delivered == IF stack = <<>> THEN 0 ELSE delivered + 1

\* the record of a handler that starts now
Started(op) ==
    IF stack = <<>> THEN Handled(op, "none", "none", FALSE, 0)
    ELSE [last EXCEPT !.op = op, !.err = "none"]

\* waiting handlers that have not added their segment editor node yet
RECURSIVE AtEvents(_)
AtEvents(st) ==
    IF st = <<>> THEN 0
    ELSE (IF st[Len(st)].at = "events" THEN 1 ELSE 0) + AtEvents(SubSeq(st, 1, Len(st) - 1))

\* load_files has returned to the handler fr.op: goNext and goPrevious go on
\* with resetUIElements, onAtlasDirectoryChanged ends
Finish(fr, sc, check, id, cmt, lst, rest) ==
    /\ scene' = sc
    /\ var_check' = check
    /\ var_ID' = id
    /\ var_comment' = IF fr.op = "directory" THEN cmt ELSE ""
    /\ stack' = rest
    /\ last' = [lst EXCEPT !.op = fr.op, !.err = "none"]

\* load_files from the return of processEvents on: the editor node, the status
\* text from the cursor as it is now, the patient ID from the local file_path,
\* the 'Prostate' message; `waiting` is the number of clicks delivered so far
AfterEvents(fr, sc, cmt, lst, rest, waiting) ==
    LET sc2 == [sc EXCEPT !.editors = @ + 1]
        check == CheckText("index / total", current_index', n_files')
        lst2 == [lst EXCEPT !.info = @ \/ fr.info]
    IN  \/ Finish(fr, sc2, check, fr.folder, cmt, lst2, rest)
        \/ \* a click is pending while the message is on display
           /\ fr.info
           /\ waiting < MaxPending
           /\ scene' = sc2
           /\ var_check' = check
           /\ var_ID' = fr.folder
           /\ var_comment' = cmt
           /\ stack' = Append(rest, [fr EXCEPT !.at = "dialog"])
           /\ last' = [lst2 EXCEPT !.op = fr.op, !.err = "none"]

\* self.load_files() in the handler op, for the case at idx
load_files(op, idx, vol, seg, sc, cmt, lst) ==
    LET r == LoadFiles(idx, vol, seg, sc)
        fr == Frame(op, r.folder, r.info, "events")
    IN  /\ volume_node' = r.volume_node
        /\ segmentation_node' = r.segmentation_node
        /\ IF r.err # "none"
           THEN /\ scene' = r.scene
                /\ UNCHANGED <<var_check, var_ID, stack>>
                /\ var_comment' = cmt
                /\ last' = [lst EXCEPT !.err = r.err]
           ELSE /\ sc.editors + AtEvents(stack) + 1 <= MaxEditorNodes
                /\ \/ AfterEvents(fr, r.scene, cmt, lst, stack, Delivered)
                   \/ \* a click is pending when processEvents is called
                      /\ Delivered < MaxPending
                      /\ scene' = r.scene
                      /\ UNCHANGED <<var_check, var_ID>>
                      /\ var_comment' = cmt
                      /\ stack' = Append(stack, fr)
                      /\ last' = lst

----------------------------------------------------------------------------
(* Case discovery *)

\* the file names a patient folder can hold
FileNames == {FImage, FSegmentation, FImageSegmentation, SavedName}

\* 'image' in file.name
HasImageWord == {f \in FileNames : Contains(f, ImageWord)}

\* 'segmentation' in file.name.lower()
HasSegmentationWord == {f \in FileNames : Contains(Lower(f), SegmentationWord)}

Perms(S) == {f \in [1..Cardinality(S) -> S] : \A i, j \in DOMAIN f : f[i] = f[j] => i = j}

\* the folders of d that the scan does not skip
Unannotated(d) ==
    LET annotated_files == IF csv[d].exists THEN ReadPatientIDs(csv[d]) ELSE {}
    IN  {p \in PatientNames : tree[d][p].kind = "dir" /\ StrValue(p) \notin annotated_files}

\* image_file after the scan of folder p: any file with 'image' in its name may be
\* the one iterated last
ImagePick(d, p) ==
    LET c == Files(d, p) \cap HasImageWord
    IN  IF c = {} THEN {None} ELSE {Path(d, p, f) : f \in c}

\* seg_file after the scan of folder p
SegPick(d, p) ==
    LET c == (Files(d, p) \ HasImageWord) \cap HasSegmentationWord
    IN  IF c = {} THEN {None} ELSE {Path(d, p, f) : f \in c}

\* the lists the scan can build for the folders in `order`, one pick per folder
RECURSIVE PickSeqs(_, _, _)
PickSeqs(d, order, image) ==
    IF Len(order) = 0 THEN {<<>>}
    ELSE LET front == SubSeq(order, 1, Len(order) - 1)
             p == order[Len(order)]
         IN  {Append(s, x) : s \in PickSeqs(d, front, image),
                             x \in IF image THEN ImagePick(d, p) ELSE SegPick(d, p)}

----------------------------------------------------------------------------
(* Handlers *)

Init ==
    /\ tree \in {[d \in Dirs |-> IF d = "A" THEN t ELSE TreeB] : t \in TreeA}
    /\ csv = [d \in Dirs |-> NoFile]
    /\ saved = [d \in Dirs |-> [p \in PatientNames |-> NoSaved]]
    /\ directory = "None"
    /\ n_files = 0
    /\ current_index = 0
    /\ image_files = <<>>
    /\ segmentation_files = <<>>
    /\ volume_node = NoneNode
    /\ segmentation_node = NoneNode
    /\ var_comment = ""
    /\ var_check = CheckText("", 0, 0)
    /\ var_ID = <<>>
    /\ scene = [volumes |-> 0, segmentations |-> 0, editors |-> 0]
    /\ stack = <<>>
    /\ delivered = 0
    /\ last = Handled("init", "none", "none", FALSE, 0)

\* the operator types into the comment field
EditComment(c) ==
    /\ var_comment' = c
    /\ UNCHANGED <<fsvars, widgetvars, var_check, var_ID, scene, loopvars, last>>

onAtlasDirectoryChanged(d) ==
    /\ Deliverable
    /\ \E order \in Perms(Unannotated(d)) :
       \E imgs \in PickSeqs(d, order, TRUE) :
       \E segs \in PickSeqs(d, order, FALSE) :
         /\ directory' = d
         /\ n_files' = Len(order)
         /\ current_index' = 0
         /\ image_files' = imgs
         /\ segmentation_files' = segs
         /\ LET vol == Removed(volume_node)
                seg == Removed(segmentation_node)
                sc == SceneAfterRemoval
                \* the second, unguarded RemoveNode calls find the nodes gone
                absent == (IF volume_node.isNone THEN 0 ELSE 1)
                          + (IF segmentation_node.isNone THEN 0 ELSE 1)
                lst == [Started("directory") EXCEPT !.absent = @ + absent]
            IN  IF Len(order) # 0
                THEN load_files("directory", 0, vol, seg, sc, "", lst)
                ELSE /\ volume_node' = vol
                     /\ segmentation_node' = seg
                     /\ scene' = sc
                     /\ var_check' = AllChecked
                     /\ var_ID' = <<>>
                     /\ var_comment' = ""
                     /\ stack' = stack
                     /\ last' = lst
    /\ delivered' = Delivered
    /\ UNCHANGED fsvars

goNextNoRemoval(op, write) ==
    LET lst == [Started(op) EXCEPT !.write = write]
    IN  /\ UNCHANGED <<directory, n_files, image_files, segmentation_files>>
        /\ IF current_index < n_files - 1
           THEN /\ current_index' = current_index + 1
                /\ load_files(op, current_index + 1, volume_node, segmentation_node,
                              scene, var_comment, lst)
           ELSE /\ current_index' = current_index
                /\ UNCHANGED <<volume_node, segmentation_node, scene, var_comment, stack>>
                /\ var_check' = AllChecked
                /\ var_ID' = <<>>
                /\ last' = lst

\* goNext in the handler `op`, whose saveNode call ended as `write`
goNext(op, write) ==
    LET vol == Removed(volume_node)
        seg == Removed(segmentation_node)
        sc == SceneAfterRemoval
        lst == [Started(op) EXCEPT !.write = write]
    IN  /\ UNCHANGED <<directory, n_files, image_files, segmentation_files>>
        /\ IF current_index < n_files - 1
           THEN /\ current_index' = current_index + 1
                /\ load_files(op, current_index + 1, vol, seg, sc, var_comment, lst)
           ELSE /\ current_index' = current_index
                /\ volume_node' = vol
                /\ segmentation_node' = seg
                /\ scene' = sc
                /\ var_check' = AllChecked
                /\ var_ID' = <<>>
                /\ UNCHANGED <<var_comment, stack>>
                /\ last' = lst

\* goPrevious without its guard at the first case
goPreviousUnguarded ==
    /\ UNCHANGED <<directory, n_files, image_files, segmentation_files>>
    /\ current_index' = current_index - 1
    /\ volume_node' = Removed(volume_node)
    /\ segmentation_node' = Removed(segmentation_node)
    /\ scene' = SceneAfterRemoval
    /\ UNCHANGED <<uivars, stack>>
    /\ last' = Started("previous")

\* goPrevious releasing the nodes before its guard, as goNext does
goPreviousRemovesFirst ==
    LET vol == Removed(volume_node)
        seg == Removed(segmentation_node)
        sc == SceneAfterRemoval
    IN  /\ UNCHANGED <<directory, n_files, image_files, segmentation_files>>
        /\ IF current_index > 0
           THEN /\ current_index' = current_index - 1
                /\ load_files("previous", current_index - 1, vol, seg, sc, var_comment,
                              Started("previous"))
           ELSE /\ current_index' = current_index
                /\ volume_node' = vol
                /\ segmentation_node' = seg
                /\ scene' = sc
                /\ UNCHANGED <<uivars, stack>>
                /\ last' = Started("previous")

goPrevious ==
    IF current_index > 0
    THEN /\ UNCHANGED <<directory, n_files, image_files, segmentation_files>>
         /\ current_index' = current_index - 1
         /\ load_files("previous", current_index - 1, Removed(volume_node),
                       Removed(segmentation_node), SceneAfterRemoval, var_comment,
                       Started("previous"))
    ELSE /\ UNCHANGED <<widgetvars, uivars, scene, stack>>
         /\ last' = Started("previous")

onPreviousClicked ==
    /\ Deliverable
    /\ goPrevious
    /\ delivered' = Delivered
    /\ UNCHANGED fsvars

\* append_to_csv writing the header on every call
append_to_csv_header_always(d, row) ==
    [csv EXCEPT ![d] =
        [exists |-> TRUE, lines |-> csv[d].lines \o <<HeaderLine, row>>]]

\* the table after append_to_csv(row) on root d
append_to_csv(d, row) ==
    LET file_exists == csv[d].exists
    IN  [csv EXCEPT ![d] =
            [exists |-> TRUE,
             lines |-> IF file_exists THEN Append(csv[d].lines, row)
                       ELSE <<HeaderLine, row>>]]

\* number of data rows of d's table
RowCount(d) == IF csv[d].exists THEN Len(csv[d].lines) - 1 ELSE 0

RECURSIVE SumRows(_)
SumRows(ds) ==
    IF ds = {} THEN 0
    ELSE LET d == CHOOSE x \in ds : TRUE IN RowCount(d) + SumRows(ds \ {d})

\* slicer.util.saveNode: the outcomes it can have; its return value is dropped
SaveOutcomes(node) == IF node.present THEN {"ok", "failed"} ELSE {"failed"}

onSaveNextClicked ==
    /\ Deliverable
    /\ delivered' = Delivered
    /\ IF n_files = 0
       THEN \* self.image_files[self.current_index] on an empty list
            /\ last' = [Started("save") EXCEPT !.err = "IndexError"]
            /\ UNCHANGED <<fsvars, widgetvars, uivars, scene, stack>>
       ELSE IF image_files[current_index + 1] = None
       THEN \* None.parent
            /\ last' = [Started("save") EXCEPT !.err = "AttributeError"]
            /\ UNCHANGED <<fsvars, widgetvars, uivars, scene, stack>>
       ELSE IF segmentation_node.isNone
       THEN \* saveNode(None, ...)
            /\ last' = [Started("save") EXCEPT !.err = "AttributeError"]
            /\ UNCHANGED <<fsvars, widgetvars, uivars, scene, stack>>
       ELSE LET d == image_files[current_index + 1][1]
                folder == image_files[current_index + 1][2]
            IN  /\ SumRows(Dirs) < MaxRows
                /\ \E write \in SaveOutcomes(segmentation_node) :
                     /\ saved' = IF write = "ok"
                                 THEN [saved EXCEPT ![d][folder] =
                                          [exists |-> TRUE,
                                           regions |-> [i \in 1..Len(segmentation_node.segs) |->
                                                           segmentation_node.segs[i].name]]]
                                 ELSE saved
                     /\ csv' = append_to_csv(directory, <<folder, var_comment>>)
                     /\ goNext("save", write)
                /\ UNCHANGED tree

\* the event loop has no more click for the handler that waits innermost:
\* processEvents, or the dialog, returns and load_files goes on
Resume ==
    /\ stack # <<>>
    /\ LET fr == stack[Len(stack)]
           rest == SubSeq(stack, 1, Len(stack) - 1)
       IN  /\ UNCHANGED <<fsvars, widgetvars>>
           /\ IF fr.at = "events"
              THEN AfterEvents(fr, scene, var_comment, last, rest, delivered)
              ELSE Finish(fr, scene, var_check, var_ID, var_comment, last, rest)
           /\ delivered' = IF stack' = <<>> THEN 0 ELSE delivered

Next ==
    \/ \E c \in Comments : EditComment(c)
    \/ \E d \in Dirs : onAtlasDirectoryChanged(d)
    \/ onSaveNextClicked
    \/ onPreviousClicked
    \/ Resume

Spec == Init /\ [][Next]_vars

----------------------------------------------------------------------------
(* Segmentation files left by an earlier session *)

\* segments a segmentation.seg.nrrd found at start may hold
MaxRegions == 2

RegionNames == {TumorName, FasciaUpper, ProstateWord}

RegionSeqs == UNION {[1..n -> RegionNames] : n \in 0..MaxRegions}

\* directory A with the one patient folder p1, which holds an image
TreeR == [p \in PatientNames |-> IF p = P1 THEN DirEntry({FImage}) ELSE NoEntry]

\* as Init, but p1 may already hold a segmentation.seg.nrrd with any segments
InitRegions ==
    /\ tree = [d \in Dirs |-> IF d = "A" THEN TreeR ELSE TreeB]
    /\ csv = [d \in Dirs |-> NoFile]
    /\ saved \in {[d \in Dirs |-> [p \in PatientNames |->
                       IF d = "A" /\ p = P1 THEN f ELSE NoSaved]] :
                  f \in {NoSaved} \cup {[exists |-> TRUE, regions |-> r] : r \in RegionSeqs}}
    /\ directory = "None"
    /\ n_files = 0
    /\ current_index = 0
    /\ image_files = <<>>
    /\ segmentation_files = <<>>
    /\ volume_node = NoneNode
    /\ segmentation_node = NoneNode
    /\ var_comment = ""
    /\ var_check = CheckText("", 0, 0)
    /\ var_ID = <<>>
    /\ scene = [volumes |-> 0, segmentations |-> 0, editors |-> 0]
    /\ stack = <<>>
    /\ delivered = 0
    /\ last = Handled("init", "none", "none", FALSE, 0)

SpecRegions == InitRegions /\ [][Next]_vars

----------------------------------------------------------------------------
(* Properties *)

\* the patientID fields of the data rows of d's table, as written
TablePatientIDs(d) ==
    IF csv[d].exists THEN {csv[d].lines[i][1] : i \in 2..Len(csv[d].lines)} ELSE {}

\* the immediate subdirectories of d whose name is not a patientID of the table
ExpectedCases(d) ==
    {p \in PatientNames : tree[d][p].kind = "dir" /\ p \notin TablePatientIDs(d)}

\* the lower-cased name of some file of folder p contains 'segmentation'
HasSegmentationFile(d, p) ==
    \E f \in Files(d, p) : Contains(Lower(f), SegmentationWord)

\* a directory selection runs: up to the end of the handler, or up to the event
\* loop inside load_files
DirectoryStep == \E d \in Dirs : onAtlasDirectoryChanged(d)

\* a save-and-next runs and gets as far as goNext
SaveReachedGoNext ==
    onSaveNextClicked /\ last'.err \notin {"IndexError", "AttributeError"}

\* C1: right after a directory selection the case list holds exactly the
\* subdirectories whose folder name is not a patientID of the directory's table.
C1_DiscoveryExcludesAnnotated ==
    [][DirectoryStep =>
          /\ n_files' = Cardinality(ExpectedCases(directory'))
          /\ \A i \in 1..Len(image_files') :
                 image_files'[i] # None =>
                     image_files'[i][2] \in ExpectedCases(directory')]_vars

\* C2: a table row for patient P implies that P's segmentation.seg.nrrd has been
\* written.
C2_RowImpliesSegmentationWritten ==
    \A d \in Dirs : \A p \in TablePatientIDs(d) : saved[d][p].exists

\* C3: no patientID appears in more than one data row of a table.
C3_OneRowPerPatient ==
    \A d \in Dirs : \A i, j \in 2..Len(csv[d].lines) :
        csv[d].lines[i][1] = csv[d].lines[j][1] => i = j

\* C4 as stated: once a handler has run, the cursor satisfies
\* 0 <= current_index < n_files.
C4_CursorBelowCount ==
    last.op # "init" => (0 <= current_index /\ current_index < n_files)

CursorBounded ==
    /\ 0 <= current_index
    /\ n_files > 0 => current_index < n_files
    /\ n_files = 0 => current_index = 0

CursorStep ==
    /\ onSaveNextClicked => current_index' \in {current_index, current_index + 1}
    /\ onPreviousClicked => current_index' \in {current_index, current_index - 1}

\* C4 amended: the cursor is never negative, it is below the case count whenever
\* the case list is not empty and 0 when it is empty, and save-and-next and
\* previous each move it by at most one.
C4_Cursor == []CursorBounded /\ [][CursorStep]_vars

C4_Witness ==
    last.op = "save" /\ last.err = "none" /\ n_files = 2 /\ current_index = 1

\* C5: goNext at the last case keeps the cursor, loads nothing, shows the "all
\* checked" text and clears the patient ID; before the last case it moves the
\* cursor by one and loads the case at the new cursor.
C5_GoNext ==
    [][SaveReachedGoNext =>
          IF current_index = n_files - 1
          THEN /\ current_index' = current_index
               /\ ~volume_node'.present /\ ~segmentation_node'.present
               /\ scene'.editors = scene.editors
               /\ var_check' = AllChecked
               /\ var_ID' = <<>>
          ELSE /\ current_index' = current_index + 1
               /\ volume_node'.present
               /\ volume_node'.src = image_files[current_index + 2]
               /\ segmentation_node'.present
               /\ segmentation_node'.src = segmentation_files[current_index + 2]]_vars

\* C6: goPrevious at the first case changes nothing: cursor, case list, nodes,
\* scene, comment text, status text and the files all stay as they are.
C6_PreviousAtFirstIsNoOp ==
    [][(onPreviousClicked /\ current_index = 0) =>
          UNCHANGED <<widgetvars, uivars, scene, fsvars>>]_vars

\* previous was clicked on the first case of a non-empty list whose node had been
\* released by goNext at the last case
C6_Witness ==
    /\ last.op = "previous" /\ current_index = 0 /\ n_files > 0
    /\ var_check = AllChecked /\ ~volume_node.isNone

TableWellFormed ==
    \A d \in Dirs :
        csv[d].exists =>
            /\ Len(csv[d].lines) >= 2
            /\ csv[d].lines[1] = HeaderLine
            /\ \A i \in 2..Len(csv[d].lines) : csv[d].lines[i] # HeaderLine

AppendStep ==
    /\ \A d \in Dirs :
           \/ csv'[d] = csv[d]
           \/ /\ csv'[d].exists
              /\ Len(csv'[d].lines) = (IF csv[d].exists THEN Len(csv[d].lines) ELSE 1) + 1
              /\ csv[d].exists =>
                     SubSeq(csv'[d].lines, 1, Len(csv[d].lines)) = csv[d].lines
              /\ csv'[d].lines[Len(csv'[d].lines)] =
                     <<image_files[current_index + 1][2], var_comment>>
    /\ SaveReachedGoNext => csv'[directory] # csv[directory]

\* C7: an annotation table starts with the header line patientID,comment, which
\* occurs nowhere else, and every append adds exactly one data row at the end and
\* leaves the earlier lines as they were.
C7_TableAppendOnly == []TableWellFormed /\ [][AppendStep]_vars

\* a table to which a second row has been appended
C7_Witness ==
    \E d \in Dirs : csv[d].exists /\ Len(csv[d].lines) = 3 /\ last.op = "save"

\* C8: when the segmentation write fails, save-and-next leaves the cursor and the
\* loaded case as they were.
C8_FailedWriteDoesNotAdvance ==
    [][(SaveReachedGoNext /\ last'.write = "failed") =>
          /\ current_index' = current_index
          /\ volume_node' = volume_node
          /\ segmentation_node' = segmentation_node]_vars

\* C9: every case found by the scan has as image a file whose name contains
\* 'image' and as segmentation a file whose lower-cased name contains
\* 'segmentation'; the segmentation is absent exactly when the folder holds no
\* such file.
C9_DiscoveryPairsFiles ==
    [][DirectoryStep =>
          \A i \in 1..n_files' :
              /\ image_files'[i] # None
              /\ Contains(image_files'[i][3], ImageWord)
              /\ segmentation_files'[i] # None =>
                     Contains(Lower(segmentation_files'[i][3]), SegmentationWord)
              /\ (segmentation_files'[i] = None) <=>
                     ~HasSegmentationFile(image_files'[i][1], image_files'[i][2])]_vars

\* C10: after a directory selection the case list comes from the new directory
\* only, the cursor is 0, the count is the length of both lists, and the first
\* case is loaded if there is one, else the "all checked" text is shown and
\* nothing is loaded.
C10_SelectionResets ==
    [][DirectoryStep =>
          /\ current_index' = 0
          /\ n_files' = Len(image_files') /\ n_files' = Len(segmentation_files')
          /\ \A i \in 1..Len(image_files') :
                 image_files'[i] # None => image_files'[i][1] = directory'
          /\ IF n_files' # 0
             THEN /\ volume_node'.present /\ volume_node'.src = image_files'[1]
                  /\ segmentation_node'.present
                  /\ segmentation_node'.src = segmentation_files'[1]
             ELSE /\ var_check' = AllChecked
                  /\ ~volume_node'.present /\ ~segmentation_node'.present]_vars

\* the names of the segments of the widget's segmentation node
SegmentNames == [i \in 1..Len(segmentation_node.segs) |-> segmentation_node.segs[i].name]

\* the widget holds a segmentation that load_files read from a file
LoadedFromFile ==
    ~segmentation_node.isNone /\ segmentation_node.present /\ segmentation_node.src # None

\* C11: in a segmentation loaded from a file, a region is visible if and only if
\* its lower-cased name is 'fascia' or 'prostate'.
C11_OnlyFasciaAndProstateVisible ==
    LoadedFromFile =>
        \A i \in 1..Len(segmentation_node.segs) :
            segmentation_node.segs[i].visible <=>
                Lower(segmentation_node.segs[i].name) \in {FasciaWord, ProstateWord}

\* a loaded file with an upper-case FASCIA, shown, and a Tumor, hidden
C11_Witness ==
    /\ LoadedFromFile
    /\ \E i, j \in 1..Len(segmentation_node.segs) :
           /\ segmentation_node.segs[i].name = FasciaUpper
           /\ segmentation_node.segs[i].visible
           /\ segmentation_node.segs[j].name = TumorName
           /\ ~segmentation_node.segs[j].visible

\* the file the widget's segmentation was loaded from holds a region named
\* 'fascia' in some letter case
FileHasFascia ==
    \E i \in 1..Len(Regions(segmentation_node.src)) :
        Lower(Regions(segmentation_node.src)[i]) = FasciaWord

\* C12: a segmentation loaded from a file keeps the file's regions, in order; one
\* region 'Fascia' is added after them if and only if the file holds no fascia
\* region, and no other region is added or removed.
C12_FasciaAddedIffMissing ==
    LoadedFromFile =>
        /\ FileHasFascia => SegmentNames = Regions(segmentation_node.src)
        /\ ~FileHasFascia =>
               SegmentNames = Append(Regions(segmentation_node.src), FasciaLabel)

\* a loaded file of two regions without a fascia: the node holds three
C12_Witness ==
    /\ LoadedFromFile
    /\ Len(Regions(segmentation_node.src)) = 2
    /\ ~FileHasFascia
    /\ Len(segmentation_node.segs) = 3
    /\ segmentation_node.segs[3].name = FasciaLabel

\* a step in which a handler loaded a case: load_files went on to its end, or
\* it waits in the event loop
LoadStep ==
    \/ Len(stack') > Len(stack)
    \/ stack' = stack /\ scene'.editors = scene.editors + 1

\* C13: when load_files runs for a case whose segmentation path is None, the
\* widget holds a new segmentation whose segments are exactly Prostate, Fascia,
\* in that order, and this load_files does not show the 'Prostate' message.
C13_FreshSegmentation ==
    [][(LoadStep /\ segmentation_files'[current_index' + 1] = None) =>
           /\ segmentation_node'.present
           /\ segmentation_node'.src = None
           /\ Len(segmentation_node'.segs) = 2
           /\ segmentation_node'.segs[1].name = ProstateLabel
           /\ segmentation_node'.segs[2].name = FasciaLabel
           /\ IF Len(stack') > Len(stack) THEN ~stack'[Len(stack')].info
              ELSE last'.info = (stack # <<>> /\ last.info)]_vars

\* a case without a segmentation file has been loaded, the widget is idle
C13_Witness ==
    /\ last.op \in {"directory", "save", "previous"}
    /\ last.err = "none"
    /\ stack = <<>>
    /\ var_check # AllChecked
    /\ n_files > 0
    /\ segmentation_files[current_index + 1] = None
    /\ segmentation_node.present
    /\ segmentation_node.src = None
    /\ Len(segmentation_node.segs) = 2
    /\ ~last.info

\* the state load_files leaves when it has shown the 'Prostate' message, or not:
\* shown if and only if no segment of the widget's segmentation has a name that
\* lower-cases to 'prostate', with the case at the cursor loaded and on display
Advisory(shown) ==
    /\ shown <=>
           ~\E i \in 1..Len(segmentation_node'.segs) :
                Lower(segmentation_node'.segs[i].name) = ProstateWord
    /\ volume_node'.present /\ segmentation_node'.present
    /\ volume_node'.src = image_files'[current_index' + 1]
    /\ segmentation_node'.src = segmentation_files'[current_index' + 1]
    /\ var_check'.index = current_index' /\ var_check'.total = n_files'
    /\ var_ID' = volume_node'.src[2]

\* C14: when load_files reaches its end, the 'Prostate' message is shown if and
\* only if no segment of the widget's segmentation has a name that lower-cases
\* to 'prostate', and the message changes nothing: the case at the cursor is
\* loaded and the panel shows it.
C14_ProstateWarning ==
    [][/\ (stack = <<>> /\ scene'.editors = scene.editors + 1) => Advisory(last'.info)
       /\ (Resume /\ stack[Len(stack)].at = "events") =>
              Advisory(stack[Len(stack)].info)]_vars

\* C15: in the state "All files are checked!" a save-and-next raises nothing,
\* appends no row, writes no segmentation file and leaves the cursor alone.
C15_SaveWhenAllCheckedIsNoOp ==
    [][(onSaveNextClicked /\ var_check = AllChecked) =>
           /\ last'.err = "none"
           /\ csv' = csv
           /\ saved' = saved
           /\ current_index' = current_index]_vars

\* the volume and segmentation nodes in the scene are the widget's current ones
OneNodeEach ==
    /\ scene.volumes = (IF volume_node.present THEN 1 ELSE 0)
    /\ scene.segmentations = (IF segmentation_node.present THEN 1 ELSE 0)

\* C16 as stated: the scene holds at most one volume node and one segmentation
\* node, and no handler calls RemoveNode on a node that is not in the scene.
C16_OneNodeEachRemovedWhilePresent ==
    /\ scene.volumes <= 1
    /\ scene.segmentations <= 1
    /\ last.absent = 0

\* save-and-next, previous and the return from the event loop make no RemoveNode
\* call on a node that is not in the scene
RemovesPresentOnly ==
    (onSaveNextClicked \/ onPreviousClicked \/ Resume) =>
        last'.absent = (IF stack = <<>> THEN 0 ELSE last.absent)

\* C16, amended: the scene holds at most one volume node and one segmentation
\* node, namely the widget's current ones, and save-and-next and previous remove
\* a node only while it is in the scene.
C16_OneNodeEach ==
    /\ [](scene.volumes <= 1 /\ scene.segmentations <= 1 /\ OneNodeEach)
    /\ [][RemovesPresentOnly]_vars

\* the second case was loaded after the first: still one node of each kind
C16_Witness ==
    /\ last.op = "save"
    /\ last.err = "none"
    /\ current_index = 1
    /\ volume_node.present /\ segmentation_node.present
    /\ scene.volumes = 1 /\ scene.segmentations = 1
    /\ scene.editors = 2

\* C17: every case of the case list has an image path, and load_files never
\* runs on an absent image path.
C17_EveryCaseHasImage ==
    /\ \A i \in 1..Len(image_files) : image_files[i] # None
    /\ last.err # "RuntimeError"

\* the file save-and-next writes for the case at 0-based position i
SavedPath(i) == Path(directory, image_files[i + 1][2], SavedName)

\* C18: after a save-and-next that wrote the segmentation of case i and loaded
\* case i + 1, a previous action loads for case i the file the save wrote.
C18_PreviousLoadsSavedFile ==
    [][(/\ onPreviousClicked
        /\ stack = <<>>
        /\ last.op = "save" /\ last.write = "ok" /\ last.err = "none"
        /\ var_check # AllChecked
        /\ current_index > 0) =>
           /\ current_index' = current_index - 1
           /\ segmentation_node'.present
           /\ segmentation_node'.src = SavedPath(current_index - 1)]_vars

\* the last handler was a save-and-next that reached goNext
Advanced == stack = <<>> /\ last.op = "save" /\ last.write # "none"

\* the cursor before that goNext: goNext leaves it alone at the last case and
\* moves it by one otherwise
CursorBeforeAdvance ==
    IF last.err = "none" /\ var_check = AllChecked THEN current_index
    ELSE current_index - 1

\* C19: with at least two cases, a previous action right after an advance puts
\* the cursor back where it was before the advance and shows that case again,
\* also when the advance was made at the last case.
C19_AdvanceThenRetreat ==
    [][(onPreviousClicked /\ Advanced /\ n_files >= 2) =>
           /\ current_index' = CursorBeforeAdvance
           /\ volume_node'.present
           /\ volume_node'.src = image_files[CursorBeforeAdvance + 1]]_vars

\* C20: the nodes added by the widget and still in the scene are those of the
\* case on display: one volume, one segmentation and one segment-editor node at
\* most, however many cases have been loaded.
C20_SceneObjectsBounded ==
    /\ scene.volumes <= 1
    /\ scene.segmentations <= 1
    /\ scene.editors <= 1

====
